---- MODULE Spec2Model ----
(***************************************************************************)
(* Pair-trading backtest and live drivers of henryyeah123/trading-system.   *)
(*                                                                         *)
(* Leg A is the numerator of the traded ratio (RSP in the RSP/VGT scripts,  *)
(* SPY in the SPY/RSP scripts), leg B the denominator.  Money is counted in *)
(* whole dollars and arithmetic is exact (the scripts use binary floating   *)
(* point; rounding error of the floats is not modelled).  RSI values are    *)
(* whole numbers in 0..100, vrp_z and z_score are counted in tenths, the    *)
(* strategies' position_size and target_qty in hundredths.                  *)
(***************************************************************************)
EXTENDS Integers, Sequences, FiniteSets, TLC

VARIABLES
    variant,            \* which backtest script runs: "final" | "aggressive"
    portfolio,          \* the script's portfolio dict
    current_position,   \* the script's current_position global
    pre,                \* history: portfolio and position before the last bar
    bar,                \* history: the last bar replayed and its portfolio_value
    last_enter_pv,      \* history: portfolio_value of the bar of the latest ENTER
    bars,               \* history: passes of the backtest loop made
    driver,             \* which live script runs: "rsp_vgt" | "vrp"
    pc,                 \* where the live script is
    live_position,      \* the live script's current_position global
    broker,             \* net shares held at the broker, per leg
    tick,               \* the locals of the current pass of the loop, and its history
    ticks,              \* passes of the loop completed
    handler_closes,     \* close_all_positions calls made by the interrupt handler
    strategy,           \* the Strategy instance, once constructed
    ctor_args,          \* history: the arguments of the constructor call
    df,                 \* the frame handed to generate_signals: a sequence of rows
    signals,            \* the columns generate_signals wrote, row by row
    ind_kind,           \* which indicator is computed: "rsi" | "zscore"
    ind_period,         \* its window: period of calculate_rsi, lookback of the z-score
    ind_prices,         \* the price columns, <<Close, rsp_close>> per bar
    ind_rsi,            \* the Series calculate_rsi returned
    ind_z               \* the z_score column add_indicators wrote

btVars == <<variant, portfolio, current_position, pre, bar, last_enter_pv, bars>>

liveVars == <<driver, pc, live_position, broker, tick, ticks, handler_closes>>

stratVars == <<strategy, ctor_args, df, signals>>

indVars == <<ind_kind, ind_period, ind_prices, ind_rsi, ind_z>>

vars == <<btVars, liveVars, stratVars, indVars>>

(***************************************************************************)
(* Bounds and inputs                                                       *)
(***************************************************************************)
MaxBars == 3
MaxTicks == 2
MaxRows == 3
MaxSeries == 5

\* <<price_A, price_B>> of a bar, as read from the CSV files (nothing checks
\* them).  45000 is the first entry's per-leg size; 80000 takes a short of two
\* A shares below zero equity.
BarPrices == { <<20000, 30000>>, <<21000, 30000>>, <<60000, 50000>>,
               <<80000, 30000>>, <<-20000, 30000>> }

\* RSI of a bar: every threshold of the scripts, and a value on each side.
RsiValues == {25, 30, 50, 65, 70, 75}

(***************************************************************************)
(* Parameters of the scripts                                               *)
(***************************************************************************)
START_CASH == 100000
RSI_ENTRY_HIGH == 65
RSI_ENTRY_LOW == 30
RSI_EXIT == 50
RSI_OVERBOUGHT == 70
RSI_OVERSOLD == 30
RSI_MEAN == 50
CAPITAL_USAGE_PCT == 90
STOP_LOSS_PCT == 2

NoPosition == "None"
ShortALongB == "short_A_long_B"
LongAShortB == "long_A_short_B"
Positions == {NoPosition, ShortALongB, LongAShortB}

(***************************************************************************)
(* The ledger                                                              *)
(***************************************************************************)
\* A state of the loop: the portfolio dict and current_position.
St(p, pos) == [p |-> p, pos |-> pos]

InitPortfolio ==
    [cash |-> START_CASH, a_shares |-> 0, b_shares |-> 0,
     equity |-> <<>>, trades |-> <<>>, entry_value |-> 0]

\* Mutant: the mark-to-market forgets leg B.
PortfolioValue_NoLegB(p, pA, pB) ==
    p.cash + p.a_shares * pA

\* portfolio_value = cash + a_shares * a_price + b_shares * b_price
PortfolioValue(p, pA, pB) ==
    p.cash + p.a_shares * pA + p.b_shares * pB

\* portfolio['equity'].append(portfolio_value)
AppendEquity(p, pv) == [p EXCEPT !.equity = Append(@, pv)]

\* position_size // price, with position_size = portfolio_value * CAPITAL_USAGE / 2
\* (// on floats is the floor, whatever the signs; no price is zero here).
FloorShares(pv, price) == (pv * CAPITAL_USAGE_PCT) \div (200 * price)

\* Mutant: the short sale's proceeds are not credited to cash.
EnterShortA_NoProceeds(s, pA, pB, pv, rsi) ==
    LET a == -FloorShares(pv, pA)
        b == FloorShares(pv, pB)
    IN St([s.p EXCEPT !.a_shares = a,
                      !.b_shares = b,
                      !.cash = @ - b * pB,
                      !.entry_value = pv,
                      !.trades = Append(@, [kind |-> "ENTER", side |-> ShortALongB,
                                            rsi |-> rsi, pnl |-> 0])],
          ShortALongB)

\* The two entry branches.
EnterShortA(s, pA, pB, pv, rsi) ==
    LET a == -FloorShares(pv, pA)
        b == FloorShares(pv, pB)
    IN St([s.p EXCEPT !.a_shares = a,
                      !.b_shares = b,
                      !.cash = (@ - b * pB) + ((-a) * pA),
                      !.entry_value = pv,
                      !.trades = Append(@, [kind |-> "ENTER", side |-> ShortALongB,
                                            rsi |-> rsi, pnl |-> 0])],
          ShortALongB)

EnterLongA(s, pA, pB, pv, rsi) ==
    LET a == FloorShares(pv, pA)
        b == -FloorShares(pv, pB)
    IN St([s.p EXCEPT !.a_shares = a,
                      !.b_shares = b,
                      !.cash = (@ - a * pA) + ((-b) * pB),
                      !.entry_value = pv,
                      !.trades = Append(@, [kind |-> "ENTER", side |-> LongAShortB,
                                            rsi |-> rsi, pnl |-> 0])],
          LongAShortB)

\* Mutant: the liquidation appends no trade record.
Liquidate_NoRecord(s, pA, pB, pv, rsi, kind) ==
    St([s.p EXCEPT !.cash = @ + s.p.a_shares * pA + s.p.b_shares * pB,
                   !.a_shares = 0,
                   !.b_shares = 0,
                   !.entry_value = 0],
       NoPosition)

\* Mutant: the liquidation credits leg A only.
Liquidate_LegAOnly(s, pA, pB, pv, rsi, kind) ==
    St([s.p EXCEPT !.cash = @ + s.p.a_shares * pA,
                   !.trades = Append(@, [kind |-> kind, side |-> NoPosition,
                                         rsi |-> rsi,
                                         pnl |-> pv - s.p.entry_value]),
                   !.a_shares = 0,
                   !.b_shares = 0,
                   !.entry_value = 0],
       NoPosition)

\* Mutant: the liquidation leaves entry_value as it was.
Liquidate_KeepsEntryValue(s, pA, pB, pv, rsi, kind) ==
    St([s.p EXCEPT !.cash = @ + s.p.a_shares * pA + s.p.b_shares * pB,
                   !.trades = Append(@, [kind |-> kind, side |-> NoPosition,
                                         rsi |-> rsi,
                                         pnl |-> pv - s.p.entry_value]),
                   !.a_shares = 0,
                   !.b_shares = 0],
       NoPosition)

\* The liquidation shared by the exit branches: both legs sold at the bar's
\* prices, the record appended, the ledger reset.
Liquidate(s, pA, pB, pv, rsi, kind) ==
    St([s.p EXCEPT !.cash = @ + s.p.a_shares * pA + s.p.b_shares * pB,
                   !.trades = Append(@, [kind |-> kind, side |-> NoPosition,
                                         rsi |-> rsi,
                                         pnl |-> pv - s.p.entry_value]),
                   !.a_shares = 0,
                   !.b_shares = 0,
                   !.entry_value = 0],
       NoPosition)

(***************************************************************************)
(* backtest_final_rsp_vgt.py: the body of the loop                         *)
(***************************************************************************)
FinalExitHolds(pos, rsi) ==
    \/ pos = ShortALongB /\ rsi < RSI_EXIT
    \/ pos = LongAShortB /\ rsi > 100 - RSI_EXIT

\* "Exit logic": if / elif
FinalExit(s, pA, pB, pv, rsi) ==
    IF FinalExitHolds(s.pos, rsi) THEN Liquidate(s, pA, pB, pv, rsi, "EXIT") ELSE s

\* Mutant: an RSI equal to an entry threshold enters too.
FinalEntry_AtThreshold(s, pA, pB, pv, rsi) ==
    IF s.pos = NoPosition
    THEN IF rsi >= RSI_ENTRY_HIGH THEN EnterShortA(s, pA, pB, pv, rsi)
         ELSE IF rsi <= RSI_ENTRY_LOW THEN EnterLongA(s, pA, pB, pv, rsi)
         ELSE s
    ELSE s

\* "Entry logic": a separate if, evaluated after the exit logic
FinalEntry(s, pA, pB, pv, rsi) ==
    IF s.pos = NoPosition
    THEN IF rsi > RSI_ENTRY_HIGH THEN EnterShortA(s, pA, pB, pv, rsi)
         ELSE IF rsi < RSI_ENTRY_LOW THEN EnterLongA(s, pA, pB, pv, rsi)
         ELSE s
    ELSE s

FinalBody(s, pA, pB, rsi) ==
    LET pv == PortfolioValue(s.p, pA, pB)
        s1 == St(AppendEquity(s.p, pv), s.pos)
        s2 == FinalExit(s1, pA, pB, pv, rsi)
    IN FinalEntry(s2, pA, pB, pv, rsi)

(***************************************************************************)
(* backtest_pair.py: the body of the loop                                  *)
(***************************************************************************)
\* Mutant: the stop fires at a loss of exactly stop_loss_pct too.
StopLossHit_AtOrBelow(pv, entry) ==
    LET pnl == pv - entry
    IN IF entry > 0 THEN 100 * pnl <= (-STOP_LOSS_PCT) * entry
       ELSE IF entry < 0 THEN 100 * pnl >= (-STOP_LOSS_PCT) * entry
       ELSE pnl < 0

\* loss_pct < -STOP_LOSS_PCT, with loss_pct = position_pnl / entry_value.
\* entry_value is a numpy float: a division by zero gives -inf, inf or nan
\* and no exception, and only -inf compares below the threshold.
StopLossHit(pv, entry) ==
    LET pnl == pv - entry
    IN IF entry > 0 THEN 100 * pnl < (-STOP_LOSS_PCT) * entry
       ELSE IF entry < 0 THEN 100 * pnl > (-STOP_LOSS_PCT) * entry
       ELSE pnl < 0

AggressiveExitHolds(pos, rsi) ==
    \/ pos = ShortALongB /\ rsi < RSI_MEAN
    \/ pos = LongAShortB /\ rsi > RSI_MEAN

\* "Trading logic": if current_position is None ... else ...
AggressiveTrade(s, pA, pB, pv, rsi) ==
    IF s.pos = NoPosition
    THEN IF rsi > RSI_OVERBOUGHT THEN EnterShortA(s, pA, pB, pv, rsi)
         ELSE IF rsi < RSI_OVERSOLD THEN EnterLongA(s, pA, pB, pv, rsi)
         ELSE s
    ELSE IF AggressiveExitHolds(s.pos, rsi)
         THEN Liquidate(s, pA, pB, pv, rsi, "EXIT")
         ELSE s

\* Mutant: the stop-loss is taken before the equity point is appended.
AggressiveBody_StopBeforeAppend(s, pA, pB, rsi) ==
    LET pv == PortfolioValue(s.p, pA, pB)
        s1 == St(AppendEquity(s.p, pv), s.pos)
    IN IF s.pos # NoPosition /\ StopLossHit(pv, s.p.entry_value)
       THEN Liquidate(s, pA, pB, pv, rsi, "STOP_LOSS")
       ELSE AggressiveTrade(s1, pA, pB, pv, rsi)

AggressiveBody(s, pA, pB, rsi) ==
    LET pv == PortfolioValue(s.p, pA, pB)
        s1 == St(AppendEquity(s.p, pv), s.pos)
    IN IF s1.pos # NoPosition /\ StopLossHit(pv, s1.p.entry_value)
       THEN Liquidate(s1, pA, pB, pv, rsi, "STOP_LOSS")   \* ... continue
       ELSE AggressiveTrade(s1, pA, pB, pv, rsi)

(***************************************************************************)
(* The backtest as a state machine: one step per bar                       *)
(***************************************************************************)
NoBar == [pA |-> 0, pB |-> 0, rsi |-> 0, pv |-> 0, enter_pv |-> 0]

InitBacktest ==
    /\ variant \in {"final", "aggressive"}
    /\ portfolio = InitPortfolio
    /\ current_position = NoPosition
    /\ pre = St(InitPortfolio, NoPosition)
    /\ bar = NoBar
    /\ last_enter_pv = 0
    /\ bars = 0

\* One pass of "for date in ... index": the ledger becomes t, the bar and the
\* ledger it met are remembered, with the portfolio_value of the latest ENTER
\* before the bar (bar.enter_pv) and after it (last_enter_pv).
Replay(t, pA, pB, rsi) ==
    /\ portfolio' = t.p
    /\ current_position' = t.pos
    /\ pre' = St(portfolio, current_position)
    /\ bar' = [pA |-> pA, pB |-> pB, rsi |-> rsi,
               pv |-> t.p.equity[Len(t.p.equity)],
               enter_pv |-> last_enter_pv]
    /\ last_enter_pv' = IF /\ Len(t.p.trades) > Len(portfolio.trades)
                            /\ t.p.trades[Len(t.p.trades)].kind = "ENTER"
                         THEN t.p.equity[Len(t.p.equity)]
                         ELSE last_enter_pv
    /\ bars' = bars + 1
    /\ UNCHANGED <<variant, liveVars, stratVars, indVars>>

FinalBar ==
    /\ variant = "final"
    /\ bars < MaxBars
    /\ \E pr \in BarPrices, rsi \in RsiValues :
          Replay(FinalBody(St(portfolio, current_position), pr[1], pr[2], rsi),
                 pr[1], pr[2], rsi)

AggressiveBar ==
    /\ variant = "aggressive"
    /\ bars < MaxBars
    /\ \E pr \in BarPrices, rsi \in RsiValues :
          Replay(AggressiveBody(St(portfolio, current_position), pr[1], pr[2], rsi),
                 pr[1], pr[2], rsi)

(***************************************************************************)
(* run_live_rsp_vgt.py and run_live_pair.py                                *)
(*                                                                         *)
(* One step per Execution Port call, so that a call can fail and an        *)
(* interrupt can arrive between any two of them.                           *)
(***************************************************************************)
VRP_PANIC_THRESHOLD == -15

Num(v) == [k |-> "num", v |-> v]
NaN == [k |-> "nan", v |-> 0]
None == [k |-> "none", v |-> 0]

\* Comparisons as Python makes them: every comparison with nan is False.
Gt(x, n) == x.k = "num" /\ x.v > n
Lt(x, n) == x.k = "num" /\ x.v < n
Le(x, n) == x.k = "num" /\ x.v <= n

\* What get_ratio_rsi returns: rsi.iloc[-1] (nan while the window is not
\* full), or None when the two series share no bar.
RsiResults == {Num(v) : v \in RsiValues} \cup {NaN, None}

\* What the z-score of get_vrp_z_score computes to, in tenths.
VrpResults == {Num(-20), Num(-15), Num(0), Num(10), NaN}

AccountValues == {100000}

\* What get_current_price returns; 0 stands for None (both are falsy).
LivePrices == {0, 15000, 30000}

NoTick == [rsi |-> None, vrp |-> Num(0), vrp_failed |-> FALSE,
           typ |-> NoPosition, acct |-> 0, pa |-> 0, pb |-> 0,
           start_pos |-> NoPosition, start_broker |-> [a |-> 0, b |-> 0],
           failed |-> FALSE, closes |-> 0, orders |-> 0, accts |-> 0]

\* The branches of the main loop, as the call each of them makes.
RspVgtDecision(pos, rsi) ==
    IF pos = ShortALongB /\ Lt(rsi, RSI_EXIT) THEN "close"
    ELSE IF pos = LongAShortB /\ Gt(rsi, 100 - RSI_EXIT) THEN "close"
    ELSE IF pos = NoPosition
         THEN IF Gt(rsi, RSI_ENTRY_HIGH) THEN ShortALongB
              ELSE IF Lt(rsi, RSI_ENTRY_LOW) THEN LongAShortB
              ELSE "hold"
    ELSE "hold"

VrpDecision(pos, rsi, vrp_z) ==
    IF pos # NoPosition /\ Le(vrp_z, VRP_PANIC_THRESHOLD) THEN "close"
    ELSE IF pos = NoPosition /\ Gt(vrp_z, VRP_PANIC_THRESHOLD)
         THEN IF Gt(rsi, RSI_OVERBOUGHT) THEN ShortALongB
              ELSE IF Lt(rsi, RSI_OVERSOLD) THEN LongAShortB
              ELSE "hold"
    ELSE IF pos # NoPosition
         THEN IF \/ pos = ShortALongB /\ Lt(rsi, RSI_MEAN)
                 \/ pos = LongAShortB /\ Gt(rsi, RSI_MEAN)
              THEN "close"
              ELSE "hold"
    ELSE "hold"

Decision(d, pos, rsi, vrp_z) ==
    IF d = "vrp" THEN VrpDecision(pos, rsi, vrp_z) ELSE RspVgtDecision(pos, rsi)

\* int(x): truncation towards zero.
IntTrunc(n, d) == IF n >= 0 THEN n \div d ELSE -((-n) \div d)

\* Mutant: only a vrp_z strictly below 0 halves the size.
SizeMultiplier2_BelowZero(d, vrp_z) == IF d = "vrp" /\ Lt(vrp_z, 0) THEN 1 ELSE 2

\* size_multiplier = 0.5 if vrp_z <= 0 else 1.0, in halves (nan <= 0 is False).
SizeMultiplier2(d, vrp_z) == IF d = "vrp" /\ Le(vrp_z, 0) THEN 1 ELSE 2

\* int(position_size / price), with
\* position_size = (account_value * CAPITAL_USAGE / 2) * size_multiplier
LiveQty(d, acct, vrp_z, price) ==
    IntTrunc(acct * CAPITAL_USAGE_PCT * SizeMultiplier2(d, vrp_z), 400 * price)

InitLive ==
    /\ driver \in {"rsp_vgt", "vrp"}
    /\ pc = "loop"
    /\ live_position = NoPosition
    /\ broker = [a |-> 0, b |-> 0]
    /\ tick = NoTick
    /\ ticks = 0
    /\ handler_closes = 0

\* Mutant: a ratio_rsi of None goes on to the branches.
AfterIndicators_NoSkip(rsi) == "branch"

\* After get_ratio_rsi (and get_vrp_z_score): "if ratio_rsi is None: sleep".
AfterIndicators(rsi) == IF rsi = None THEN "sleep" ELSE "branch"

\* ratio_rsi = get_ratio_rsi()
GetRatioRsi ==
    /\ pc = "loop"
    /\ ticks < MaxTicks
    /\ \E r \in RsiResults :
          /\ tick' = [NoTick EXCEPT !.rsi = r, !.start_pos = live_position,
                                    !.start_broker = broker]
          /\ pc' = IF driver = "vrp" THEN "vrp" ELSE AfterIndicators(r)
    /\ UNCHANGED <<driver, live_position, broker, ticks, handler_closes, btVars, stratVars, indVars>>

\* api.get_bars raises inside get_ratio_rsi: nothing in the loop catches it
\* (the try around the loop catches KeyboardInterrupt only).
GetRatioRsiRaises ==
    /\ pc = "loop"
    /\ ticks < MaxTicks
    /\ tick' = [NoTick EXCEPT !.start_pos = live_position, !.start_broker = broker,
                              !.failed = TRUE]
    /\ pc' = "crashed"
    /\ UNCHANGED <<driver, live_position, broker, ticks, handler_closes, btVars, stratVars, indVars>>

\* vrp_z = get_vrp_z_score()
GetVrpZScore ==
    /\ pc = "vrp"
    /\ \E z \in VrpResults : tick' = [tick EXCEPT !.vrp = z]
    /\ pc' = AfterIndicators(tick.rsi)
    /\ UNCHANGED <<driver, live_position, broker, ticks, handler_closes, btVars, stratVars, indVars>>

\* get_vrp_z_score catches every Exception and returns 0.0
GetVrpZScoreFails ==
    /\ pc = "vrp"
    /\ tick' = [tick EXCEPT !.vrp = Num(0), !.vrp_failed = TRUE]
    /\ pc' = AfterIndicators(tick.rsi)
    /\ UNCHANGED <<driver, live_position, broker, ticks, handler_closes, btVars, stratVars, indVars>>

\* The if / elif chain of the loop, up to the call it makes.
Branch ==
    /\ pc = "branch"
    /\ LET d == Decision(driver, live_position, tick.rsi, tick.vrp)
       IN IF d = "close" THEN pc' = "close" /\ tick' = tick
          ELSE IF d = "hold" THEN pc' = "sleep" /\ tick' = tick
          ELSE pc' = "account" /\ tick' = [tick EXCEPT !.typ = d]
    /\ UNCHANGED <<driver, live_position, broker, ticks, handler_closes, btVars, stratVars, indVars>>

\* close_all_positions(), called from the loop
CloseAllPositions ==
    /\ pc = "close"
    /\ broker' = [a |-> 0, b |-> 0]
    /\ live_position' = NoPosition
    /\ tick' = [tick EXCEPT !.closes = @ + 1]
    /\ pc' = "sleep"
    /\ UNCHANGED <<driver, ticks, handler_closes, btVars, stratVars, indVars>>

CloseAllPositionsFails ==
    /\ pc = "close"
    /\ tick' = [tick EXCEPT !.closes = @ + 1, !.failed = TRUE]
    /\ pc' = "sleep"
    /\ UNCHANGED <<driver, live_position, broker, ticks, handler_closes, btVars, stratVars, indVars>>

\* enter_trade: account_value = get_account_value()
GetAccountValue ==
    /\ pc = "account"
    /\ \E v \in AccountValues : tick' = [tick EXCEPT !.acct = v, !.accts = @ + 1]
    /\ pc' = "price_a"
    /\ UNCHANGED <<driver, live_position, broker, ticks, handler_closes, btVars, stratVars, indVars>>

\* enter_trade: a_price = get_current_price(A)
GetPriceA ==
    /\ pc = "price_a"
    /\ \E p \in LivePrices : tick' = [tick EXCEPT !.pa = p]
    /\ pc' = "price_b"
    /\ UNCHANGED <<driver, live_position, broker, ticks, handler_closes, btVars, stratVars, indVars>>

\* enter_trade: b_price = get_current_price(B); if not a_price or not b_price: return
GetPriceB ==
    /\ pc = "price_b"
    /\ \E p \in LivePrices :
          /\ tick' = [tick EXCEPT !.pb = p]
          /\ pc' = IF tick.pa = 0 \/ p = 0 THEN "sleep" ELSE "order1"
    /\ UNCHANGED <<driver, live_position, broker, ticks, handler_closes, btVars, stratVars, indVars>>

\* enter_trade: a call of get_account_value or get_current_price raises;
\* "except Exception" prints and returns.
ReadFails ==
    /\ pc \in {"account", "price_a", "price_b"}
    /\ tick' = [tick EXCEPT !.failed = TRUE,
                            !.accts = IF pc = "account" THEN @ + 1 ELSE @]
    /\ pc' = "sleep"
    /\ UNCHANGED <<driver, live_position, broker, ticks, handler_closes, btVars, stratVars, indVars>>

\* enter_trade: the order for leg A ('sell' when short A, 'buy' when long A)
SubmitOrderA ==
    /\ pc = "order1"
    /\ LET q == LiveQty(driver, tick.acct, tick.vrp, tick.pa)
       IN broker' = [broker EXCEPT !.a = IF tick.typ = ShortALongB THEN @ - q ELSE @ + q]
    /\ tick' = [tick EXCEPT !.orders = @ + 1]
    /\ pc' = "order2"
    /\ UNCHANGED <<driver, live_position, ticks, handler_closes, btVars, stratVars, indVars>>

\* enter_trade: the order for leg B, then current_position = position_type
SubmitOrderB ==
    /\ pc = "order2"
    /\ LET q == LiveQty(driver, tick.acct, tick.vrp, tick.pb)
       IN broker' = [broker EXCEPT !.b = IF tick.typ = ShortALongB THEN @ + q ELSE @ - q]
    /\ tick' = [tick EXCEPT !.orders = @ + 1]
    /\ live_position' = tick.typ
    /\ pc' = "sleep"
    /\ UNCHANGED <<driver, ticks, handler_closes, btVars, stratVars, indVars>>

\* enter_trade: api.submit_order raises; "except Exception" prints and returns.
SubmitOrderFails ==
    /\ pc \in {"order1", "order2"}
    /\ tick' = [tick EXCEPT !.failed = TRUE]
    /\ pc' = "sleep"
    /\ UNCHANGED <<driver, live_position, broker, ticks, handler_closes, btVars, stratVars, indVars>>

\* time.sleep(300), and round the loop
Sleep ==
    /\ pc = "sleep"
    /\ pc' = "loop"
    /\ ticks' = ticks + 1
    /\ UNCHANGED <<driver, live_position, broker, tick, handler_closes, btVars, stratVars, indVars>>

InLoop == {"loop", "vrp", "branch", "close", "account", "price_a", "price_b",
           "order1", "order2", "sleep"}

\* KeyboardInterrupt, raised wherever the loop is; no "except Exception"
\* catches it, the handler around the loop does.
Interrupt ==
    /\ pc \in InLoop
    /\ pc' = "interrupted"
    /\ UNCHANGED <<driver, live_position, broker, tick, ticks, handler_closes, btVars, stratVars, indVars>>

\* except KeyboardInterrupt: close_all_positions()
HandlerClose ==
    /\ pc = "interrupted"
    /\ broker' = [a |-> 0, b |-> 0]
    /\ live_position' = NoPosition
    /\ handler_closes' = handler_closes + 1
    /\ pc' = "stopped"
    /\ UNCHANGED <<driver, tick, ticks, btVars, stratVars, indVars>>

HandlerCloseFails ==
    /\ pc = "interrupted"
    /\ handler_closes' = handler_closes + 1
    /\ pc' = "stopped"
    /\ UNCHANGED <<driver, live_position, broker, tick, ticks, btVars, stratVars, indVars>>

(***************************************************************************)
(* strategies/: pandas Series, as sequences of Num(v) or NaN                *)
(***************************************************************************)
\* Series.replace(0, np.nan) of an integer column
ReplaceZero(s) == [i \in DOMAIN s |-> IF s[i] = 0 THEN NaN ELSE Num(s[i])]

\* Series.ffill(): the last valid value is carried forward
RECURSIVE FfillAt(_, _)
FfillAt(s, i) == IF s[i] # NaN \/ i = 1 THEN s[i] ELSE FfillAt(s, i - 1)

Ffill(s) == [i \in DOMAIN s |-> FfillAt(s, i)]

\* Series.fillna(v)
Fillna(s, v) == [i \in DOMAIN s |-> IF s[i] = NaN THEN Num(v) ELSE s[i]]

\* signal.replace(0, np.nan).ffill().fillna(0), as plain numbers
CarryForward(signal) ==
    LET filled == Fillna(Ffill(ReplaceZero(signal)), 0)
    IN [i \in DOMAIN signal |-> filled[i].v]

(***************************************************************************)
(* strategies/rsi_pair_strategy.py: VRPAdaptivePairStrategy                 *)
(***************************************************************************)
panic_threshold == -15

\* Mutant: a vrp_z of exactly the panic threshold counts as safe.
IsSafe_AtThreshold(vrp_z) == vrp_z.k = "num" /\ vrp_z.v >= panic_threshold

\* is_safe = df['vrp_z'] > panic_threshold
IsSafe(vrp_z) == Gt(vrp_z, panic_threshold)

VRPAdaptive_init(rsi_threshold, position_size) ==
    [cls |-> "VRPAdaptivePairStrategy", rsi_threshold |-> rsi_threshold,
     position_size |-> position_size]

\* Mutant: an unsafe bar ends the carried position for the bars after it too.
VRPAdaptive_generate_signals_UnsafeResets(self, frame) ==
    LET rows == DOMAIN frame
        is_safe == [i \in rows |-> IsSafe(frame[i].vrp_z)]
        buy_rsp == [i \in rows |-> Gt(frame[i].rsi_spy, self.rsi_threshold) /\ is_safe[i]]
        sell_rsp == [i \in rows |-> Gt(frame[i].rsi_rsp, self.rsi_threshold) /\ is_safe[i]]
        signal == [i \in rows |-> IF sell_rsp[i] THEN -1
                                  ELSE IF buy_rsp[i] THEN 1 ELSE 0]
        marked == [i \in rows |-> IF is_safe[i] THEN signal[i] ELSE 2]
        position == CarryForward(marked)
        target_qty == [i \in rows |-> IF Le(frame[i].vrp_z, 0)
                                      THEN self.position_size \div 2
                                      ELSE self.position_size]
    IN  [i \in rows |-> [signal |-> signal[i],
                         position |-> IF position[i] = 2 THEN 0 ELSE position[i],
                         target_qty |-> IF is_safe[i] THEN target_qty[i] ELSE 0]]

VRPAdaptive_generate_signals(self, frame) ==
    LET rows == DOMAIN frame
        is_safe == [i \in rows |-> IsSafe(frame[i].vrp_z)]
        buy_rsp == [i \in rows |-> Gt(frame[i].rsi_spy, self.rsi_threshold) /\ is_safe[i]]
        sell_rsp == [i \in rows |-> Gt(frame[i].rsi_rsp, self.rsi_threshold) /\ is_safe[i]]
        \* signal = 1 where buy_rsp, then signal = -1 where sell_rsp
        signal == [i \in rows |-> IF sell_rsp[i] THEN -1
                                  ELSE IF buy_rsp[i] THEN 1 ELSE 0]
        position == CarryForward(signal)
        \* target_qty = position_size, halved where vrp_z <= 0
        target_qty == [i \in rows |-> IF Le(frame[i].vrp_z, 0)
                                      THEN self.position_size \div 2
                                      ELSE self.position_size]
    IN  \* df.loc[~is_safe, 'position'] = 0; df.loc[~is_safe, 'target_qty'] = 0
        [i \in rows |-> [signal |-> signal[i],
                         position |-> IF is_safe[i] THEN position[i] ELSE 0,
                         target_qty |-> IF is_safe[i] THEN target_qty[i] ELSE 0]]

(***************************************************************************)
(* strategies/rsi_pair_strategy.py: RSIPairStrategy                         *)
(***************************************************************************)
\* __init__ stores its arguments and checks nothing.
RSIPair_init(rsi_threshold, position_size) ==
    [cls |-> "RSIPairStrategy", rsi_threshold |-> rsi_threshold,
     position_size |-> position_size]

\* Mutant: the short assignment is made last.
RSIPair_signal_ShortLast(self, rsi) ==
    IF Gt(rsi, self.rsi_threshold) THEN -1
    ELSE IF Lt(rsi, 100 - self.rsi_threshold) THEN 1
    ELSE 0

\* signal = 0; signal = -1 where rsi > threshold; then signal = 1 where
\* rsi < 100 - threshold: the later assignment overwrites the earlier one.
RSIPair_signal(self, rsi) ==
    IF Lt(rsi, 100 - self.rsi_threshold) THEN 1
    ELSE IF Gt(rsi, self.rsi_threshold) THEN -1
    ELSE 0

RSIPair_generate_signals(self, frame) ==
    LET rows == DOMAIN frame
        signal == [i \in rows |-> RSIPair_signal(self, frame[i].rsi)]
        position == CarryForward(signal)
    IN [i \in rows |-> [signal |-> signal[i],
                        position |-> position[i],
                        target_qty |-> self.position_size]]

(***************************************************************************)
(* strategies/zscore_pair_strategy.py: ZScorePairStrategy                   *)
(***************************************************************************)
ValueError(msg) == [cls |-> "ValueError", msg |-> msg]

\* Mutant: exit_z equal to entry_z is let through.
ZScore_init_ExitUpToEntry(lookback, entry_z, exit_z, position_size) ==
    IF lookback < 2 THEN ValueError("lookback must be at least 2.")
    ELSE IF entry_z <= 0 THEN ValueError("entry_z must be positive.")
    ELSE IF exit_z < 0 THEN ValueError("exit_z must be non-negative.")
    ELSE IF exit_z > entry_z THEN ValueError("exit_z must be less than entry_z.")
    ELSE IF position_size <= 0 THEN ValueError("position_size must be positive.")
    ELSE [cls |-> "ZScorePairStrategy", lookback |-> lookback, entry_z |-> entry_z,
          exit_z |-> exit_z, position_size |-> position_size]

\* __init__: the checks in their order, then the four assignments.
ZScore_init(lookback, entry_z, exit_z, position_size) ==
    IF lookback < 2 THEN ValueError("lookback must be at least 2.")
    ELSE IF entry_z <= 0 THEN ValueError("entry_z must be positive.")
    ELSE IF exit_z < 0 THEN ValueError("exit_z must be non-negative.")
    ELSE IF exit_z >= entry_z THEN ValueError("exit_z must be less than entry_z.")
    ELSE IF position_size <= 0 THEN ValueError("position_size must be positive.")
    ELSE [cls |-> "ZScorePairStrategy", lookback |-> lookback, entry_z |-> entry_z,
          exit_z |-> exit_z, position_size |-> position_size]

\* Series.abs()
AbsNum(x) == IF x.k = "num" /\ x.v < 0 THEN Num(-x.v) ELSE x

ZScore_generate_signals(self, frame) ==
    LET rows == DOMAIN frame
        short_spy == [i \in rows |-> Gt(frame[i].z_score, self.entry_z)]
        long_spy == [i \in rows |-> Lt(frame[i].z_score, -self.entry_z)]
        \* signal = -1 where short_spy, then signal = 1 where long_spy
        signal == [i \in rows |-> IF long_spy[i] THEN 1
                                  ELSE IF short_spy[i] THEN -1 ELSE 0]
        carried == CarryForward(signal)
        exit_mask == [i \in rows |-> Lt(AbsNum(frame[i].z_score), self.exit_z)]
        \* df.loc[exit_mask, "position"] = 0
        position == [i \in rows |-> IF exit_mask[i] THEN 0 ELSE carried[i]]
        Abs(n) == IF n < 0 THEN -n ELSE n
    IN [i \in rows |-> [signal |-> signal[i],
                        position |-> position[i],
                        target_qty |-> Abs(position[i]) * self.position_size]]

(***************************************************************************)
(* The strategies as a state machine: a constructor call, then              *)
(* generate_signals on a frame that grows by one bar per call               *)
(***************************************************************************)
NotConstructed == [cls |-> "None"]
NoArgs == [cls |-> "None"]

\* The columns add_indicators leaves in a row of the VRP strategy's frame:
\* both RSIs on either side of the threshold, vrp_z around both regime
\* bounds, and nan while a rolling window is not full.
VrpRows ==
    [rsi_spy : {Num(50), Num(75)}, rsi_rsp : {Num(50), Num(75)},
     vrp_z : {Num(-20), Num(-15), Num(0), Num(10), NaN}]

\* The rsi column: both default thresholds, a value on each side and between
\* them, and nan while the rolling window is not full.
RsiRows == [rsi : {Num(25), Num(30), Num(50), Num(70), Num(75), NaN}]

\* The z_score column (add_indicators fills nan with 0.0): in tenths, both
\* default thresholds with either sign, and a value on each side of them.
ZScoreRows == [z_score : {Num(-25), Num(-20), Num(-10), Num(-5), Num(0),
                          Num(3), Num(5), Num(20), Num(25)}]

\* Constructor arguments: the defaults, and values on and beyond each check.
Lookbacks == {1, 2, 60}
EntryZs == {-10, 0, 5, 20}
ExitZs == {-5, 0, 5, 20}
PositionSizes == {0, 1000}
RsiThresholds == {40, 70}

InitStrategy ==
    /\ strategy = NotConstructed
    /\ ctor_args = NoArgs
    /\ df = <<>>
    /\ signals = <<>>

ConstructVRPAdaptive ==
    /\ strategy = NotConstructed
    /\ \E thr \in {70}, size \in {10000} :
          /\ ctor_args' = [cls |-> "VRPAdaptivePairStrategy",
                           rsi_threshold |-> thr, position_size |-> size]
          /\ strategy' = VRPAdaptive_init(thr, size)
    /\ UNCHANGED <<df, signals, btVars, liveVars, indVars>>

VRPAdaptiveSignals ==
    /\ strategy.cls = "VRPAdaptivePairStrategy"
    /\ Len(df) < MaxRows
    /\ \E row \in VrpRows :
          /\ df' = Append(df, row)
          /\ signals' = VRPAdaptive_generate_signals(strategy, Append(df, row))
    /\ UNCHANGED <<strategy, ctor_args, btVars, liveVars, indVars>>

ConstructRSIPair ==
    /\ strategy = NotConstructed
    /\ \E thr \in RsiThresholds, size \in {5000} :
          /\ ctor_args' = [cls |-> "RSIPairStrategy",
                           rsi_threshold |-> thr, position_size |-> size]
          /\ strategy' = RSIPair_init(thr, size)
    /\ UNCHANGED <<df, signals, btVars, liveVars, indVars>>

RSIPairSignals ==
    /\ strategy.cls = "RSIPairStrategy"
    /\ Len(df) < MaxRows
    /\ \E row \in RsiRows :
          /\ df' = Append(df, row)
          /\ signals' = RSIPair_generate_signals(strategy, Append(df, row))
    /\ UNCHANGED <<strategy, ctor_args, btVars, liveVars, indVars>>

\* ZScorePairStrategy(lookback, entry_z, exit_z, position_size): the instance,
\* or the ValueError raised in its place.
ConstructZScore ==
    /\ strategy = NotConstructed
    /\ \E lookback \in Lookbacks, entry_z \in EntryZs, exit_z \in ExitZs,
          size \in PositionSizes :
          /\ ctor_args' = [cls |-> "ZScorePairStrategy", lookback |-> lookback,
                           entry_z |-> entry_z, exit_z |-> exit_z,
                           position_size |-> size]
          /\ strategy' = ZScore_init(lookback, entry_z, exit_z, size)
    /\ UNCHANGED <<df, signals, btVars, liveVars, indVars>>

ZScoreSignals ==
    /\ strategy.cls = "ZScorePairStrategy"
    /\ Len(df) < MaxRows
    /\ \E row \in ZScoreRows :
          /\ df' = Append(df, row)
          /\ signals' = ZScore_generate_signals(strategy, Append(df, row))
    /\ UNCHANGED <<strategy, ctor_args, btVars, liveVars, indVars>>

(***************************************************************************)
(* calculate_rsi (the same function in every script and in RSIPairStrategy) *)
(*                                                                         *)
(* A defined RSI is kept as the exact fraction n / d.                       *)
(***************************************************************************)
Ratio(n, d) == [k |-> "num", n |-> n, d |-> d]
Inf == [k |-> "inf", v |-> 0]

RECURSIVE SumRange(_, _, _)
SumRange(s, lo, hi) == IF lo > hi THEN 0 ELSE s[hi] + SumRange(s, lo, hi - 1)

\* Mutant: the first value comes one bar later.
RollingSum_OneLate(s, w) ==
    [i \in DOMAIN s |-> IF i <= w THEN NaN ELSE Num(SumRange(s, i - w + 1, i))]

\* Series.rolling(window=w).mean() of a column without nan, times w (the
\* factor cancels in gain / loss): nan until w values are in the window.
RollingSum(s, w) ==
    [i \in DOMAIN s |-> IF i < w THEN NaN ELSE Num(SumRange(s, i - w + 1, i))]

\* prices.diff(): nan on the first bar
Diff(prices) ==
    [i \in DOMAIN prices |-> IF i = 1 THEN NaN ELSE Num(prices[i] - prices[i - 1])]

\* gain / loss of two float Series: x / 0 is inf, 0 / 0 is nan, no exception
Divide(gain, loss) ==
    IF gain.k # "num" \/ loss.k # "num" THEN NaN
    ELSE IF loss.v = 0 THEN (IF gain.v = 0 THEN NaN ELSE Inf)
    ELSE Ratio(gain.v, loss.v)

\* Mutant: a division by zero gives nan.
RsiOfRs_InfIsNaN(rs) ==
    IF rs.k = "num" THEN Ratio(100 * rs.n, rs.n + rs.d) ELSE NaN

\* 100 - (100 / (1 + rs)): with rs = g / l this is 100 g / (g + l); 100 / inf is 0
RsiOfRs(rs) ==
    IF rs.k = "nan" THEN NaN
    ELSE IF rs.k = "inf" THEN Ratio(100, 1)
    ELSE Ratio(100 * rs.n, rs.n + rs.d)

calculate_rsi(prices, period) ==
    LET delta == Diff(prices)
        \* delta.where(delta > 0, 0): the nan of the first bar becomes 0 too
        ups == [i \in DOMAIN prices |-> IF Gt(delta[i], 0) THEN delta[i].v ELSE 0]
        downs == [i \in DOMAIN prices |-> -(IF Lt(delta[i], 0) THEN delta[i].v ELSE 0)]
        gain == RollingSum(ups, period)
        loss == RollingSum(downs, period)
    IN [i \in DOMAIN prices |-> RsiOfRs(Divide(gain[i], loss[i]))]

(***************************************************************************)
(* strategies/zscore_pair_strategy.py: add_indicators                       *)
(*                                                                         *)
(* The ratio is counted in hundredths.  A defined z-score is kept exactly,  *)
(* as its sign and its square n / d.                                        *)
(***************************************************************************)
ZValue(sgn, n, d) == [k |-> "num", sgn |-> sgn, n |-> n, d |-> d]
ZZero == ZValue(0, 0, 1)

\* df["Close"] / df["rsp_close"]: x / 0 is inf, 0 / 0 is nan
RatioOf(close, rsp_close) ==
    IF rsp_close = 0 THEN (IF close = 0 THEN NaN ELSE Inf)
    ELSE Num((100 * close) \div rsp_close)

\* A rolling window gives a number once it holds `lookback` values, all of
\* them finite (rolling takes inf as nan).
WindowReady(ratio, lookback, i) ==
    /\ i >= lookback
    /\ \A j \in (i - lookback + 1)..i : ratio[j].k = "num"

\* lookback * (ratio - mean) at bar i, mean being the rolling mean
Deviation(ratio, lookback, i) ==
    LET vals == [j \in DOMAIN ratio |-> IF ratio[j].k = "num" THEN ratio[j].v ELSE 0]
    IN IF WindowReady(ratio, lookback, i)
       THEN Num(lookback * vals[i] - SumRange(vals, i - lookback + 1, i))
       ELSE NaN

\* lookback^2 * (lookback - 1) * std^2 at bar i, std being the rolling
\* (sample) standard deviation
SumSquares(ratio, lookback, i) ==
    LET vals == [j \in DOMAIN ratio |-> IF ratio[j].k = "num" THEN ratio[j].v ELSE 0]
        total == SumRange(vals, i - lookback + 1, i)
        sq == [j \in DOMAIN ratio |-> (lookback * vals[j] - total) * (lookback * vals[j] - total)]
    IN IF WindowReady(ratio, lookback, i)
       THEN Num(SumRange(sq, i - lookback + 1, i))
       ELSE NaN

\* z = (ratio - mean) / std.replace(0.0, np.nan)
ZOf(dev, ss) ==
    IF dev.k # "num" \/ ss.k # "num" THEN NaN
    ELSE IF ss.v = 0 THEN NaN
    ELSE ZValue(IF dev.v > 0 THEN 1 ELSE IF dev.v < 0 THEN -1 ELSE 0,
                dev.v * dev.v, ss.v)

\* Mutant: only the infinities are replaced by 0.
ZFill_InfOnly(zv) == IF zv.k = "inf" THEN ZZero ELSE zv

\* z.replace([np.inf, -np.inf], np.nan).fillna(0.0)
ZFill(zv) == IF zv.k # "num" THEN ZZero ELSE zv

\* The z_score column of add_indicators.  With n = lookback,
\* z^2 = (n x - S)^2 (n - 1) / sum (n x_j - S)^2.
add_indicators(prices, lookback) ==
    LET ratio == [i \in DOMAIN prices |-> RatioOf(prices[i][1], prices[i][2])]
        zs == [i \in DOMAIN prices |->
                  LET zv == ZOf(Deviation(ratio, lookback, i),
                                SumSquares(ratio, lookback, i))
                  IN IF zv.k = "num"
                     THEN ZValue(zv.sgn, zv.n * (lookback - 1), zv.d)
                     ELSE zv]
    IN [i \in DOMAIN prices |-> ZFill(zs[i])]

\* <<Close, rsp_close>> of a bar: ratios 2.00 (at two price levels), 3.00
\* and 1.50, and a bar without an RSP price.
ClosePairs == { <<200, 100>>, <<300, 150>>, <<300, 100>>, <<150, 100>>, <<100, 0>> }

\* lookback, as the constructor lets it through
ZLookbacks == {2, 3}

\* Close of a bar: rises, falls and repeats are all possible.
Closes == {100, 101, 103}

Periods == {1, 2, 3}

NoIndicator ==
    /\ ind_kind = "None"
    /\ ind_period = 0
    /\ ind_prices = <<>>
    /\ ind_rsi = <<>>
    /\ ind_z = <<>>

InitIndicators ==
    /\ \/ ind_kind = "rsi" /\ ind_period \in Periods
       \/ ind_kind = "zscore" /\ ind_period \in ZLookbacks
    /\ ind_prices = <<>>
    /\ ind_rsi = <<>>
    /\ ind_z = <<>>

\* calculate_rsi on the Close column, one bar longer at each call
CalculateRsi ==
    /\ ind_kind = "rsi"
    /\ Len(ind_prices) < MaxSeries
    /\ \E c \in Closes :
          LET grown == Append(ind_prices, <<c, 0>>)
          IN /\ ind_prices' = grown
             /\ ind_rsi' = calculate_rsi([i \in DOMAIN grown |-> grown[i][1]], ind_period)
    /\ UNCHANGED <<ind_kind, ind_period, ind_z, btVars, liveVars, stratVars>>

\* ZScorePairStrategy.add_indicators on a frame one bar longer at each call
AddIndicators ==
    /\ ind_kind = "zscore"
    /\ Len(ind_prices) < MaxSeries
    /\ \E pr \in ClosePairs :
          /\ ind_prices' = Append(ind_prices, pr)
          /\ ind_z' = add_indicators(Append(ind_prices, pr), ind_period)
    /\ UNCHANGED <<ind_kind, ind_period, ind_rsi, btVars, liveVars, stratVars>>

(***************************************************************************)
(* Specifications                                                          *)
(***************************************************************************)
\* The live script does not run during a backtest, and conversely.
LiveIdle ==
    /\ driver = "rsp_vgt"
    /\ pc = "stopped"
    /\ live_position = NoPosition
    /\ broker = [a |-> 0, b |-> 0]
    /\ tick = NoTick
    /\ ticks = 0
    /\ handler_closes = 0

BacktestIdle ==
    /\ variant = "final"
    /\ portfolio = InitPortfolio
    /\ current_position = NoPosition
    /\ pre = St(InitPortfolio, NoPosition)
    /\ bar = NoBar
    /\ last_enter_pv = 0
    /\ bars = 0

\* No strategy object exists in the scripts.
StrategyIdle ==
    /\ strategy = NotConstructed
    /\ ctor_args = NoArgs
    /\ df = <<>>
    /\ signals = <<>>

Init == InitBacktest /\ LiveIdle /\ StrategyIdle /\ NoIndicator

Next == FinalBar \/ AggressiveBar

Spec == Init /\ [][Next]_vars

NextLive ==
    \/ GetRatioRsi \/ GetRatioRsiRaises
    \/ GetVrpZScore \/ GetVrpZScoreFails
    \/ Branch
    \/ CloseAllPositions \/ CloseAllPositionsFails
    \/ GetAccountValue \/ GetPriceA \/ GetPriceB \/ ReadFails
    \/ SubmitOrderA \/ SubmitOrderB \/ SubmitOrderFails
    \/ Sleep
    \/ Interrupt \/ HandlerClose \/ HandlerCloseFails

LiveInit == BacktestIdle /\ InitLive /\ StrategyIdle /\ NoIndicator

SpecLive == LiveInit /\ [][NextLive]_vars

NextStrategy ==
    \/ ConstructVRPAdaptive \/ VRPAdaptiveSignals
    \/ ConstructRSIPair \/ RSIPairSignals
    \/ ConstructZScore \/ ZScoreSignals

StrategyInit == BacktestIdle /\ LiveIdle /\ InitStrategy /\ NoIndicator

SpecStrategy == StrategyInit /\ [][NextStrategy]_vars

NextIndicators == CalculateRsi \/ AddIndicators

IndicatorsInit == BacktestIdle /\ LiveIdle /\ StrategyIdle /\ InitIndicators

SpecIndicators == IndicatorsInit /\ [][NextIndicators]_vars

\* The VRP overlay in both of its places: a run of run_live_pair.py, or
\* (where no live script runs) the use of a VRPAdaptivePairStrategy.
VrpInit ==
    \/ LiveInit /\ driver = "vrp"
    \/ StrategyInit

NextVrp ==
    \/ NextLive
    \/ LiveIdle /\ (ConstructVRPAdaptive \/ VRPAdaptiveSignals)

SpecVrp == VrpInit /\ [][NextVrp]_vars

(***************************************************************************)
(* Properties of the backtest                                              *)
(***************************************************************************)
Replayed == Len(portfolio.equity) > 0

\* The trade records appended by the last bar.
Fired == SubSeq(portfolio.trades, Len(pre.p.trades) + 1, Len(portfolio.trades))

ExitKinds == {"EXIT", "STOP_LOSS"}

\* C1: the value appended to the equity curve for a bar is
\* cash + qty_A * price_A + qty_B * price_B of the ledger as it stood at the
\* start of the bar, at the bar's prices; earlier points are kept.
C1_EquityIsMarkToMarket ==
    Replayed =>
        /\ portfolio.equity[Len(portfolio.equity)]
              = pre.p.cash + pre.p.a_shares * bar.pA + pre.p.b_shares * bar.pB
        /\ SubSeq(portfolio.equity, 1, Len(portfolio.equity) - 1) = pre.p.equity

\* C1 witness: a bar replayed with both legs open, valued away from cash.
C1_Witness ==
    /\ Replayed
    /\ pre.p.a_shares # 0 /\ pre.p.b_shares # 0
    /\ portfolio.equity[Len(portfolio.equity)] # pre.p.cash
    /\ portfolio.equity[Len(portfolio.equity)] # START_CASH

\* C2 (as claimed): at the end of every bar the position is FLAT iff both
\* share counts are zero.
C2_FlatIffNoShares ==
    (current_position = NoPosition)
        <=> (portfolio.a_shares = 0 /\ portfolio.b_shares = 0)

\* C3 (as claimed): an open position has legs of strictly opposite signs,
\* the sign of qty_A given by the position kind.
C3_OppositeSigns ==
    /\ current_position = ShortALongB
          => (portfolio.a_shares < 0 /\ portfolio.b_shares > 0)
    /\ current_position = LongAShortB
          => (portfolio.a_shares > 0 /\ portfolio.b_shares < 0)

\* C4: whatever a bar's transitions are, the ledger after the bar is worth,
\* at the bar's prices, what the ledger before the bar was worth.
C4_TransitionsConserveValue ==
    Replayed =>
        portfolio.cash + portfolio.a_shares * bar.pA + portfolio.b_shares * bar.pB
            = pre.p.cash + pre.p.a_shares * bar.pA + pre.p.b_shares * bar.pB

\* C4 witness: an ENTER that bought and sold shares and moved cash.
C4_Witness ==
    /\ Replayed
    /\ Len(Fired) > 0
    /\ Fired[Len(Fired)].kind = "ENTER"
    /\ portfolio.a_shares # 0 /\ portfolio.b_shares # 0
    /\ portfolio.cash # pre.p.cash

\* C5 (as claimed): at most one transition fires per bar; a bar on which an
\* exit fires ends FLAT and appends no ENTER record.
C5_OneTransitionPerBar ==
    /\ Len(Fired) <= 1
    /\ (\E i \in 1..Len(Fired) : Fired[i].kind \in ExitKinds)
          => /\ current_position = NoPosition
             /\ \A j \in 1..Len(Fired) : Fired[j].kind # "ENTER"

\* C6: in the aggressive backtest, a bar that starts with an open position
\* and (portfolio_value - entry_value) / entry_value < -stop_loss_pct has a
\* STOP_LOSS to FLAT as its only transition; any other bar produces no
\* STOP_LOSS record.
C6_RatioBelowStop ==
    LET value == pre.p.cash + pre.p.a_shares * bar.pA + pre.p.b_shares * bar.pB
        entry == pre.p.entry_value
    IN \/ entry > 0 /\ 100 * (value - entry) < -(STOP_LOSS_PCT * entry)
       \/ entry < 0 /\ 100 * (value - entry) > -(STOP_LOSS_PCT * entry)
       \/ entry = 0 /\ value < 0

C6_StopLossFirst ==
    (variant = "aggressive" /\ Replayed) =>
        IF pre.pos # NoPosition /\ C6_RatioBelowStop
        THEN /\ Len(Fired) = 1
             /\ Fired[1].kind = "STOP_LOSS"
             /\ current_position = NoPosition
        ELSE \A i \in 1..Len(Fired) : Fired[i].kind # "STOP_LOSS"

\* C6 witness: a stop-loss bar on which the mean-reversion exit and an entry
\* condition hold as well.
C6_Witness ==
    /\ variant = "aggressive" /\ Replayed
    /\ pre.pos = ShortALongB /\ C6_RatioBelowStop
    /\ bar.rsi < RSI_MEAN /\ bar.rsi < RSI_OVERSOLD
    /\ Len(Fired) = 1 /\ Fired[1].kind = "STOP_LOSS"

\* The ledger before the last bar, valued at the bar's prices.
PreValue == pre.p.cash + pre.p.a_shares * bar.pA + pre.p.b_shares * bar.pB

\* The last bar appended an ENTER record (as its last record).
Entered == Len(Fired) > 0 /\ Fired[Len(Fired)].kind = "ENTER"

\* The last bar appended an EXIT or STOP_LOSS record (as its first record).
Exited == Len(Fired) > 0 /\ Fired[1].kind \in ExitKinds

\* Cash, share counts, entry_value and position are those before the bar.
LedgerHeld ==
    /\ portfolio.cash = pre.p.cash
    /\ portfolio.a_shares = pre.p.a_shares
    /\ portfolio.b_shares = pre.p.b_shares
    /\ portfolio.entry_value = pre.p.entry_value
    /\ current_position = pre.pos

\* C12 (as claimed): a bar with a zero or negative price for either leg
\* causes no transition: cash, share counts, entry_value and position are
\* unchanged and no trade record is appended.
C12_BadPriceBarHolds ==
    (Replayed /\ (bar.pA <= 0 \/ bar.pB <= 0)) =>
        /\ LedgerHeld
        /\ Len(Fired) = 0

\* C13 (as claimed): at every ENTER both quantities are floors of
\* position_size / price with position_size = portfolio_value * 0.90 / 2,
\* negated on the short leg, and |qty| * price <= position_size on each leg.
C13_EntryWithinTarget ==
    (Replayed /\ Entered) =>
        LET long_is_A == current_position = LongAShortB
            long_qty == IF long_is_A THEN portfolio.a_shares ELSE portfolio.b_shares
            short_qty == IF long_is_A THEN portfolio.b_shares ELSE portfolio.a_shares
            long_price == IF long_is_A THEN bar.pA ELSE bar.pB
            short_price == IF long_is_A THEN bar.pB ELSE bar.pA
            Abs(n) == IF n < 0 THEN -n ELSE n
        IN /\ long_qty = (bar.pv * 90) \div (200 * long_price)
           /\ short_qty = -((bar.pv * 90) \div (200 * short_price))
           /\ 200 * Abs(long_qty) * long_price <= 90 * bar.pv
           /\ 200 * Abs(short_qty) * short_price <= 90 * bar.pv

\* C14: a bar that fires an EXIT or STOP_LOSS reports as realized P&L the
\* bar's portfolio_value minus the portfolio_value of the bar of the ENTER
\* that opened the position; the liquidation raises cash by
\* qty_A * price_A + qty_B * price_B (cash is taken before the fills of an
\* ENTER the same bar may add), and leaves both share counts and
\* entry_value zero and cash equal to the bar's portfolio_value.
C14_ExitSettles ==
    (Replayed /\ Exited) =>
        /\ Fired[1].pnl = bar.pv - bar.enter_pv
        /\ portfolio.cash + portfolio.a_shares * bar.pA + portfolio.b_shares * bar.pB
              = pre.p.cash + pre.p.a_shares * bar.pA + pre.p.b_shares * bar.pB
        /\ ~Entered =>
              /\ portfolio.a_shares = 0 /\ portfolio.b_shares = 0
              /\ portfolio.entry_value = 0
              /\ portfolio.cash = bar.pv

\* C14 witness: the exit of a position that was not the run's first, both
\* legs held, with a realized P&L other than zero.
C14_Witness ==
    /\ Replayed /\ Exited /\ ~Entered
    /\ pre.p.a_shares # 0 /\ pre.p.b_shares # 0
    /\ bar.enter_pv # START_CASH
    /\ Fired[1].pnl # 0
    /\ portfolio.cash # pre.p.cash

\* C15: at the end of every bar entry_value is 0 when FLAT and, when a
\* position is open, the portfolio_value of the bar of the latest ENTER; a
\* bar without a transition leaves it as it was.
C15_EntryValueTracksEnter ==
    /\ current_position = NoPosition => portfolio.entry_value = 0
    /\ current_position # NoPosition => portfolio.entry_value = last_enter_pv
    /\ (Replayed /\ Len(Fired) = 0) => portfolio.entry_value = pre.p.entry_value

\* C15 witness: a held bar whose portfolio_value is not the entry_value.
C15_Witness ==
    /\ Replayed /\ Len(Fired) = 0
    /\ current_position # NoPosition
    /\ bar.pv # portfolio.entry_value
    /\ portfolio.entry_value = last_enter_pv
    /\ portfolio.entry_value # START_CASH

\* C16 (as claimed): a bar that starts SHORT_A_LONG_B with RSI < 50, or
\* LONG_A_SHORT_B with RSI > 100 - 50, and is no stop-loss bar, ends FLAT
\* with an EXIT record; any other bar that starts with an open position and
\* is no stop-loss bar leaves position, shares, cash and entry_value alone.
C16_ExitAtMeanReversion ==
    (/\ Replayed
     /\ pre.pos # NoPosition
     /\ ~(variant = "aggressive" /\ C6_RatioBelowStop)) =>
        IF \/ pre.pos = ShortALongB /\ bar.rsi < 50
           \/ pre.pos = LongAShortB /\ bar.rsi > 100 - 50
        THEN /\ current_position = NoPosition
             /\ Exited /\ Fired[1].kind = "EXIT"
        ELSE /\ LedgerHeld
             /\ Len(Fired) = 0

(***************************************************************************)
(* Properties of the live drivers                                          *)
(***************************************************************************)
Flat == [a |-> 0, b |-> 0]

\* C7 (as claimed): a pass of the loop in which an account-value read, a
\* price read, an order submission or a close-all failed is a no-op: at its
\* sleep the tracked position and the broker's holdings are those the pass
\* started with.
C7_FailedTickIsNoOp ==
    (pc = "sleep" /\ tick.failed) =>
        /\ live_position = tick.start_pos
        /\ broker = tick.start_broker

\* C8 (as claimed): no failure of an Execution Port call ends the polling
\* loop.
C8_FailureNeverEndsLoop ==
    tick.failed => pc # "crashed"

\* C9 (as claimed): when an interrupt has ended the loop, close_all_positions
\* was invoked once and no position is left open at the broker.
C9_InterruptFlattens ==
    pc = "stopped" =>
        /\ handler_closes = 1
        /\ broker = Flat

\* C10 (as claimed): in the VRP-hedged driver a pass of the loop that starts
\* with an open position and has vrp_z <= -1.5 makes exactly one panic
\* flatten, whatever the ratio RSI, and a pass whose vrp_z is not above -1.5
\* makes no entry.
C10_PanicFlattensOnce ==
    (driver = "vrp" /\ pc = "sleep") =>
        /\ (tick.start_pos # NoPosition /\ Le(tick.vrp, VRP_PANIC_THRESHOLD))
              => /\ tick.closes = 1
                 /\ live_position = NoPosition
                 /\ broker = Flat
        /\ ~Gt(tick.vrp, VRP_PANIC_THRESHOLD)
              => /\ tick.orders = 0
                 /\ tick.accts = 0

(***************************************************************************)
(* Properties of the strategies                                            *)
(***************************************************************************)
Generated == Len(signals) > 0 /\ Len(signals) = Len(df)

\* C11: VRPAdaptivePairStrategy.generate_signals writes position = 0 and
\* target_qty = 0 on every bar whose vrp_z is not strictly above -1.5 (nan
\* included), whatever the two RSIs and whatever signal was carried forward.
C11_UnsafeBarIsFlat ==
    (strategy.cls = "VRPAdaptivePairStrategy" /\ Generated) =>
        \A i \in 1..Len(df) :
            (df[i].vrp_z.k = "nan" \/ df[i].vrp_z.v <= -15)
                => /\ signals[i].position = 0
                   /\ signals[i].target_qty = 0

\* C11 witness: a bar at exactly -1.5 with an overbought RSI, after a bar
\* that took a position, and a bar after it on which that position is back.
C11_Witness ==
    /\ strategy.cls = "VRPAdaptivePairStrategy" /\ Len(signals) = 3
    /\ signals[1].position # 0
    /\ df[2].vrp_z = Num(-15) /\ df[2].rsi_spy = Num(75)
    /\ signals[2].position = 0 /\ signals[2].target_qty = 0
    /\ signals[3].position = signals[1].position

\* The position the claimed z-score rule gives bar i: short above entry_z,
\* long below -entry_z, flat inside exit_z, otherwise that of bar i - 1.
RECURSIVE ZScoreClaimedPosition(_)
ZScoreClaimedPosition(i) ==
    IF i = 0 THEN 0
    ELSE LET z == df[i].z_score.v
             absz == IF z < 0 THEN -z ELSE z
         IN IF z > strategy.entry_z THEN -1
            ELSE IF z < -strategy.entry_z THEN 1
            ELSE IF absz < strategy.exit_z THEN 0
            ELSE ZScoreClaimedPosition(i - 1)

\* C17 (as claimed): ZScorePairStrategy.generate_signals gives every bar the
\* position -1 if z > entry_z, +1 if z < -entry_z, 0 if |z| < exit_z, and
\* otherwise the position of the previous bar, so that a position closed
\* inside exit_z stays closed until |z| exceeds entry_z again.
C17_ZScoreHysteresis ==
    (strategy.cls = "ZScorePairStrategy" /\ Generated) =>
        \A i \in 1..Len(df) : signals[i].position = ZScoreClaimedPosition(i)

\* C18: ZScorePairStrategy(...) raises exactly when its arguments violate
\* 0 <= exit_z < entry_z, lookback >= 2 or position_size > 0; then there is
\* no instance; otherwise the instance holds the four arguments.
C18_ConstructorValidates ==
    ctor_args.cls = "ZScorePairStrategy" =>
        LET valid == /\ 0 <= ctor_args.exit_z
                     /\ ctor_args.exit_z < ctor_args.entry_z
                     /\ ctor_args.lookback >= 2
                     /\ ctor_args.position_size > 0
        IN IF valid
           THEN strategy = ctor_args
           ELSE /\ strategy.cls = "ValueError"
                /\ df = <<>> /\ signals = <<>>

\* C18 witness: lookback=60, entry_z=2.0, exit_z=2.0 is refused.
C18_Witness ==
    /\ ctor_args.cls = "ZScorePairStrategy"
    /\ ctor_args.lookback = 60 /\ ctor_args.entry_z = 20 /\ ctor_args.exit_z = 20
    /\ ctor_args.position_size > 0
    /\ strategy.cls = "ValueError"

\* The position the claimed threshold rule gives bar i, the short test first.
RECURSIVE RSIClaimedPosition(_)
RSIClaimedPosition(i) ==
    IF i = 0 THEN 0
    ELSE IF Gt(df[i].rsi, strategy.rsi_threshold) THEN -1
    ELSE IF Lt(df[i].rsi, 100 - strategy.rsi_threshold) THEN 1
    ELSE RSIClaimedPosition(i - 1)

\* C19 (as claimed): RSIPairStrategy.generate_signals gives every bar the
\* position -1 if rsi > rsi_threshold, +1 if rsi < 100 - rsi_threshold,
\* otherwise the position of the previous bar (0 before the first signal,
\* nan bars included), and target_qty = position_size.
C19_ThresholdRule ==
    (strategy.cls = "RSIPairStrategy" /\ Generated) =>
        \A i \in 1..Len(df) :
            /\ signals[i].position = RSIClaimedPosition(i)
            /\ signals[i].target_qty = strategy.position_size

\* The same rule with the long test first.
RECURSIVE RSILongFirstPosition(_)
RSILongFirstPosition(i) ==
    IF i = 0 THEN 0
    ELSE IF df[i].rsi.k = "num" /\ df[i].rsi.v < 100 - strategy.rsi_threshold THEN 1
    ELSE IF df[i].rsi.k = "num" /\ df[i].rsi.v > strategy.rsi_threshold THEN -1
    ELSE RSILongFirstPosition(i - 1)

\* C19 (amended): the position is +1 if rsi < 100 - rsi_threshold, else -1
\* if rsi > rsi_threshold, otherwise (nan bars included) the position of the
\* previous bar, 0 before the first signal; target_qty = position_size.
C19_LongWinsOverlap ==
    (strategy.cls = "RSIPairStrategy" /\ Generated) =>
        \A i \in 1..Len(df) :
            /\ signals[i].position = RSILongFirstPosition(i)
            /\ signals[i].target_qty = strategy.position_size

\* C19 witness: rsi_threshold = 40 and a bar with rsi = 50, above the
\* threshold and below 100 - threshold, after a short bar; then a nan bar.
C19_Witness ==
    /\ strategy.cls = "RSIPairStrategy" /\ strategy.rsi_threshold = 40
    /\ Len(signals) = 3
    /\ df[1].rsi = Num(75) /\ signals[1].position = -1
    /\ df[2].rsi = Num(50) /\ signals[2].position = 1
    /\ df[3].rsi = NaN /\ signals[3].position = 1

(***************************************************************************)
(* The live RSP/VGT driver against the final backtest                      *)
(***************************************************************************)
\* C20 (as claimed): a pass of the RSP/VGT live loop in which every call
\* succeeded and returned a value leaves the tracked position that one bar
\* of the final backtest gives from the same position and the same RSI.
C20_LiveMatchesBacktest ==
    (/\ driver = "rsp_vgt" /\ pc = "sleep"
     /\ ~tick.failed
     /\ tick.rsi.k = "num"
     /\ tick.typ # NoPosition => (tick.pa # 0 /\ tick.pb # 0)) =>
        live_position
            = FinalBody(St(InitPortfolio, tick.start_pos), 20000, 30000, tick.rsi.v).pos

C22_NotReadyHolds ==
    pc = "sleep" =>
        /\ (tick.typ # NoPosition /\ (tick.pa = 0 \/ tick.pb = 0)) =>
              /\ tick.orders = 0
              /\ live_position = NoPosition
              /\ broker = tick.start_broker
        /\ (tick.rsi = None \/ (driver = "rsp_vgt" /\ tick.rsi = NaN)) =>
              /\ tick.orders = 0 /\ tick.closes = 0
              /\ live_position = tick.start_pos
              /\ broker = tick.start_broker

\* C22 witness: the VRP driver holds an open position through a pass with
\* no ratio RSI although vrp_z is in the panic zone.
C22_Witness ==
    /\ driver = "vrp" /\ pc = "sleep"
    /\ tick.rsi = None /\ tick.vrp = Num(-20)
    /\ tick.start_pos # NoPosition
    /\ live_position = tick.start_pos
    /\ broker # Flat /\ broker = tick.start_broker

(***************************************************************************)
(* The backtest's equity curve and trade log                               *)
(***************************************************************************)
\* C23: after k passes of the loop the equity curve has k points, the last
\* one appended by the last bar after those of the earlier bars, whatever
\* fired on the bar.
C23_OneEquityPointPerBar ==
    /\ Len(portfolio.equity) = bars
    /\ Replayed =>
          /\ Len(pre.p.equity) = bars - 1
          /\ \A i \in 1..(bars - 1) : portfolio.equity[i] = pre.p.equity[i]
          /\ portfolio.equity[bars] = PreValue

\* C23 witness: a stop-loss bar (which leaves the loop body early), after a
\* bar that entered.
C23_Witness ==
    /\ variant = "aggressive" /\ bars = 2
    /\ Len(Fired) = 1 /\ Fired[1].kind = "STOP_LOSS"
    /\ Len(portfolio.equity) = 2
    /\ portfolio.equity[2] # portfolio.equity[1]

(***************************************************************************)
(* Properties of the indicators                                            *)
(***************************************************************************)
RsiComputed == ind_kind = "rsi" /\ Len(ind_rsi) > 0 /\ Len(ind_rsi) = Len(ind_prices)

\* The bars whose price changes lie in the window that ends at bar i (the
\* first bar of the series has no change).
WindowChanges(i) == { j \in (i - ind_period + 1)..i : j >= 2 }

NoLossInWindow(i) ==
    \A j \in WindowChanges(i) : ind_prices[j][1] >= ind_prices[j - 1][1]

NoGainInWindow(i) ==
    \A j \in WindowChanges(i) : ind_prices[j][1] <= ind_prices[j - 1][1]

\* C24 (as claimed): calculate_rsi is nan on each of the first `period` bars,
\* and on every later bar whose average loss over the window is 0.
C24_NotReadyAsClaimed ==
    RsiComputed =>
        \A i \in 1..Len(ind_rsi) :
            (i <= ind_period \/ NoLossInWindow(i)) => ind_rsi[i] = NaN

\* C24 (amended): calculate_rsi is nan on each of the first period - 1 bars;
\* from bar `period` on it is nan exactly where the window holds neither a
\* loss nor a gain, 100 where it holds gains and no loss, and a number
\* otherwise.
C24_NotReady ==
    RsiComputed =>
        \A i \in 1..Len(ind_rsi) :
            IF i < ind_period THEN ind_rsi[i] = NaN
            ELSE IF NoLossInWindow(i)
                 THEN IF NoGainInWindow(i) THEN ind_rsi[i] = NaN
                      ELSE ind_rsi[i].k = "num" /\ ind_rsi[i].n = 100 * ind_rsi[i].d
            ELSE ind_rsi[i].k = "num"

\* C24 witness: with period 3, bar 3 has a value (100: two rises) and bar 5
\* ends a window without any change.
C24_Witness ==
    /\ RsiComputed /\ ind_period = 3 /\ Len(ind_rsi) = 5
    /\ ind_prices[1][1] < ind_prices[2][1]
    /\ ind_rsi[2] = NaN
    /\ ind_rsi[3].k = "num" /\ ind_rsi[3].n = 100 * ind_rsi[3].d
    /\ ind_prices[3][1] = ind_prices[2][1]
    /\ ind_prices[4][1] = ind_prices[2][1]
    /\ ind_prices[5][1] = ind_prices[2][1]
    /\ ind_rsi[5] = NaN

\* C25: on a strictly increasing series calculate_rsi is 100 on every bar
\* that has `period` price changes behind it, on a strictly decreasing one
\* it is 0 there, and every defined value lies in [0, 100].
C25_MonotoneBounds ==
    RsiComputed =>
        LET n == Len(ind_prices)
            increasing == \A j \in 2..n : ind_prices[j][1] > ind_prices[j - 1][1]
            decreasing == \A j \in 2..n : ind_prices[j][1] < ind_prices[j - 1][1]
        IN /\ increasing =>
                 \A i \in (ind_period + 1)..n :
                     ind_rsi[i].k = "num" /\ ind_rsi[i].n = 100 * ind_rsi[i].d
           /\ decreasing =>
                 \A i \in (ind_period + 1)..n :
                     ind_rsi[i].k = "num" /\ ind_rsi[i].n = 0
           /\ \A i \in 1..n :
                 ind_rsi[i].k = "num" =>
                     /\ ind_rsi[i].d > 0
                     /\ 0 <= ind_rsi[i].n /\ ind_rsi[i].n <= 100 * ind_rsi[i].d

\* C25 witness: a strictly increasing series longer than the period.
C25_Witness ==
    /\ RsiComputed /\ ind_period = 2 /\ Len(ind_prices) = 3
    /\ ind_prices[1][1] < ind_prices[2][1] /\ ind_prices[2][1] < ind_prices[3][1]
    /\ ind_rsi[3] = Ratio(100, 1)

ZComputed == ind_kind = "zscore" /\ Len(ind_z) > 0 /\ Len(ind_z) = Len(ind_prices)

\* The window that ends at bar i is full and every ratio in it is that of
\* bar i (Close_j / rsp_close_j = Close_i / rsp_close_i): its standard
\* deviation is 0.
FlatWindow(i) ==
    /\ i >= ind_period
    /\ \A j \in (i - ind_period + 1)..i :
          /\ ind_prices[j][2] # 0
          /\ ind_prices[j][1] * ind_prices[i][2] = ind_prices[i][1] * ind_prices[j][2]

\* C26: add_indicators writes a z_score of exactly 0 on every bar whose
\* window has standard deviation 0, and a finite number on every bar; a
\* z_score of 0 gives no entry signal, whatever instance reads it.
C26_FlatIsNeutral ==
    ZComputed =>
        \A i \in 1..Len(ind_z) :
            /\ ind_z[i].k = "num" /\ ind_z[i].d > 0 /\ ind_z[i].n >= 0
            /\ FlatWindow(i) => ind_z[i] = ZZero
            /\ ind_z[i] = ZZero =>
                  \A entry_z \in EntryZs, exit_z \in ExitZs :
                      LET self == ZScore_init(60, entry_z, exit_z, 1000)
                      IN self.cls = "ZScorePairStrategy" =>
                            ZScore_generate_signals(
                                self, <<[z_score |-> Num(0)]>>)[1].signal = 0

\* C26 witness: a flat ratio over a full window while both prices moved, a
\* bar whose ratio moved, and a bar without an RSP price.
C26_Witness ==
    /\ ZComputed /\ ind_period = 2 /\ Len(ind_z) = 4
    /\ ind_prices[1] = <<200, 100>> /\ ind_prices[2] = <<300, 150>>
    /\ FlatWindow(2) /\ ind_z[2] = ZZero
    /\ ind_prices[3] = <<300, 100>> /\ ind_z[3].sgn = 1
    /\ ind_prices[4] = <<100, 0>> /\ ind_z[4] = ZZero

(***************************************************************************)
(* The trade log, the hold bars and the stop-loss denominator              *)
(***************************************************************************)
\* C27: the trade log only grows (the records before a bar are kept, in
\* place); its records are ENTER, exit-class, ENTER, ... starting with an
\* ENTER; and its last record is an ENTER iff the position is open, the
\* ENTER records outnumbering the exit-class ones by 1 then and by 0 when
\* FLAT.
C27_LogAlternates ==
    LET log == portfolio.trades
        enters == Cardinality({i \in 1..Len(log) : log[i].kind = "ENTER"})
        exits == Cardinality({i \in 1..Len(log) : log[i].kind \in ExitKinds})
    IN /\ Len(log) >= Len(pre.p.trades)
       /\ \A i \in 1..Len(pre.p.trades) : log[i] = pre.p.trades[i]
       /\ \A i \in 1..Len(log) :
             IF i % 2 = 1 THEN log[i].kind = "ENTER" ELSE log[i].kind \in ExitKinds
       /\ (current_position # NoPosition)
             <=> (Len(log) > 0 /\ log[Len(log)].kind = "ENTER")
       /\ enters - exits = IF current_position # NoPosition THEN 1 ELSE 0

\* C27 witness: a bar that appended an EXIT and the next ENTER to a log that
\* held an ENTER.
C27_Witness ==
    /\ Len(pre.p.trades) = 1 /\ Len(portfolio.trades) = 3
    /\ portfolio.trades[1] = pre.p.trades[1]
    /\ portfolio.trades[2].kind = "EXIT" /\ portfolio.trades[3].kind = "ENTER"
    /\ current_position # NoPosition

\* No transition is due on the last bar: it started FLAT with the RSI
\* within the two entry thresholds (inclusive), or open with neither the
\* exit condition nor (aggressive backtest) the stop-loss condition.
HoldBar ==
    LET high == IF variant = "final" THEN 65 ELSE 70
        low == 30
    IN IF pre.pos = NoPosition
       THEN low <= bar.rsi /\ bar.rsi <= high
       ELSE /\ ~(pre.pos = ShortALongB /\ bar.rsi < 50)
            /\ ~(pre.pos = LongAShortB /\ bar.rsi > 50)
            /\ ~(variant = "aggressive" /\ C6_RatioBelowStop)

\* C28: a bar on which no transition is due leaves cash, both share counts,
\* entry_value, the position and the trade log as they were, and adds one
\* point to the equity curve.
C28_HoldBarFrame ==
    (Replayed /\ HoldBar) =>
        /\ LedgerHeld
        /\ portfolio.trades = pre.p.trades
        /\ Len(portfolio.equity) = Len(pre.p.equity) + 1

\* C28 witness: a FLAT bar with the RSI on the upper entry threshold of the
\* final backtest, after a round trip that changed the cash.
C28_Witness ==
    /\ variant = "final" /\ Replayed /\ HoldBar
    /\ pre.pos = NoPosition /\ bar.rsi = 65
    /\ Len(portfolio.trades) = 2
    /\ portfolio.cash # START_CASH

\* C29 (as claimed): in the aggressive backtest an open position has a
\* strictly positive entry_value, and no ENTER fires on a bar whose
\* portfolio_value is zero or negative.
C29_EntryValuePositive ==
    variant = "aggressive" =>
        /\ current_position # NoPosition => portfolio.entry_value > 0
        /\ (Replayed /\ Entered) => bar.pv > 0

\* The most recent nonzero signal of the bars before i (0 if none), the
\* signal of a bar being -1 where it is safe with rsi_rsp above the
\* threshold, else +1 where it is safe with rsi_spy above it.
RECURSIVE VrpLastSignal(_)
VrpLastSignal(i) ==
    IF i = 0 THEN 0
    ELSE LET r == df[i]
             safe == r.vrp_z.k = "num" /\ r.vrp_z.v > -15
             sell == safe /\ r.rsi_rsp.k = "num" /\ r.rsi_rsp.v > strategy.rsi_threshold
             buy == safe /\ r.rsi_spy.k = "num" /\ r.rsi_spy.v > strategy.rsi_threshold
         IN IF sell THEN -1 ELSE IF buy THEN 1 ELSE VrpLastSignal(i - 1)

\* C30: in VRPAdaptivePairStrategy.generate_signals a safe bar on which
\* neither RSI is above the threshold has the position of the most recent
\* nonzero signal of the earlier bars (0 if there is none), unsafe bars in
\* between or not.
C30_PositionReappears ==
    (strategy.cls = "VRPAdaptivePairStrategy" /\ Generated) =>
        \A i \in 1..Len(df) :
            (/\ df[i].vrp_z.k = "num" /\ df[i].vrp_z.v > -15
             /\ ~Gt(df[i].rsi_spy, strategy.rsi_threshold)
             /\ ~Gt(df[i].rsi_rsp, strategy.rsi_threshold))
                => signals[i].position = VrpLastSignal(i - 1)

\* C30 witness: a signal, an unsafe bar that flattens it, then a safe bar
\* without any RSI signal on which the position is back.
C30_Witness ==
    /\ strategy.cls = "VRPAdaptivePairStrategy" /\ Len(signals) = 3
    /\ signals[1].signal = 1 /\ signals[1].position = 1
    /\ df[2].vrp_z = Num(-20) /\ signals[2].position = 0
    /\ df[3].vrp_z = Num(10) /\ df[3].rsi_spy = Num(50) /\ df[3].rsi_rsp = Num(50)
    /\ signals[3].signal = 0 /\ signals[3].position = 1

====
